---- MODULE Spec2Model ----
(***************************************************************************)
(* A model of the async-ts synchronisation primitives: Mutex and MutexRW   *)
(* (src/unnamed/part_000), Latch (src/src/latch.ts) and PromiseBarrier     *)
(* (src/src/utils.ts).                                                     *)
(*                                                                         *)
(* All four are built from ECMAScript promises, so the model carries a     *)
(* small promise engine: every promise has a state and an ordered list of  *)
(* reactions; settling a promise moves its reactions, in registration      *)
(* order, to the FIFO microtask queue; the event loop runs one microtask   *)
(* at a time.  Code outside the library (the callers, written "env") runs  *)
(* either in a macrotask (the microtask queue is empty) or in a microtask  *)
(* of its own (the continuation of an await, or a queued callback).        *)
(***************************************************************************)
EXTENDS Integers, Sequences, FiniteSets, TLC

\* ------------------------------------------------------------ bounds
NumThreads == 3
MaxReleases == 2
NumAccessors == 3
NumWaiters == 2
NumHandles == 2
MaxGates == 2
MaxDisposals == 2
NumTasks == 2

\* ------------------------------------------------------------ state
VARIABLES
  pstate,        \* promise id -> "pending" | "fulfilled" | "rejected"
  reactions,     \* promise id -> the jobs registered on it, in order
  microtasks,    \* the microtask queue (FIFO)
  envTurn,       \* TRUE while code outside the library is running
  m_lastPromise, \* Mutex.m_lastPromise
  threads,       \* the callers of the Mutex (the tests' f())
  callOrder,     \* history: non-bypass callers in the order they called obtain
  grantOrder,    \* history: non-bypass callers in the order obtain returned
  m_nextRWPromise, \* MutexRW.m_nextRWPromise
  m_lastRWPromise, \* MutexRW.m_lastRWPromise
  m_lastROPromise, \* MutexRW.m_lastROPromise
  roAccessCnt,   \* MutexRW.roAccessCnt
  rwAccess,      \* MutexRW.rwAccess
  allRemaining,  \* remaining elements of each Promise.all of line 106
  accessors,     \* the callers of the MutexRW (the tests' fRO() and fRW())
  m_open,        \* Latch.m_open: the gate its resolver settles, or Null
  m_gate,        \* Latch.m_gate: the current gate
  m_inUse,       \* Latch.m_inUse
  gatesMade,     \* how many gate promises close() has created
  waiters,       \* the tasks that read latch.gate and await it
  handles,       \* the objects use() returned
  lastOp,        \* what the last step was: a call of open(), a disposal, or none
  forced,        \* history: open() was called from outside the latch, or
                 \* some handle was disposed more than once
  m_activePromises, \* PromiseBarrier.m_activePromises
  m_cachedFree,  \* PromiseBarrier.m_cachedFree: a free future, or Null
  settledRemaining, \* remaining elements of each Promise.allSettled of line 121
  freesMade,     \* how many free futures line 121 has created
  tasks,         \* the promises handed to add()
  lastRead,      \* what the last step, a read of free, returned (else Null)
  obtainedPending \* history: the free futures a caller was handed while
                 \* some added task was unsettled

engineVars == <<pstate, reactions, microtasks, envTurn>>
mutexVars == <<m_lastPromise, threads, callOrder, grantOrder>>
rwVars == <<m_nextRWPromise, m_lastRWPromise, m_lastROPromise, roAccessCnt,
            rwAccess, allRemaining, accessors>>
latchVars == <<m_open, m_gate, m_inUse, gatesMade, waiters, handles, lastOp,
               forced>>
barrierVars == <<m_activePromises, m_cachedFree, settledRemaining, freesMade,
                 tasks, lastRead, obtainedPending>>
vars == <<pstate, reactions, microtasks, envTurn,
          m_lastPromise, threads, callOrder, grantOrder,
          m_nextRWPromise, m_lastRWPromise, m_lastROPromise, roAccessCnt,
          rwAccess, allRemaining, accessors,
          m_open, m_gate, m_inUse, gatesMade, waiters, handles, lastOp,
          forced,
          m_activePromises, m_cachedFree, settledRemaining, freesMade,
          tasks, lastRead, obtainedPending>>

\* ------------------------------------------------------------ promises
Threads == 1..NumThreads

NoP == <<"none", 0, 0>>
MutexInitP == <<"mutexInit", 0, 0>>
LockP(c) == <<"lock", c, 0>>

MutexPromises == {MutexInitP} \cup {LockP(c) : c \in Threads}

Accessors == 1..NumAccessors
NextRWInitP == <<"nextRWInit", 0, 0>>
LastRWInitP == <<"lastRWInit", 0, 0>>
LastROInitP == <<"lastROInit", 0, 0>>
RWP(a) == <<"thisRW", a, 0>>
ROP(a) == <<"thisRO", a, 0>>
AllP(a) == <<"all", a, 0>>
RWInitPromises == {NextRWInitP, LastRWInitP, LastROInitP}
RWPromises ==
  RWInitPromises \cup {RWP(a) : a \in Accessors}
    \cup {ROP(a) : a \in Accessors} \cup {AllP(a) : a \in Accessors}

Waiters == 1..NumWaiters
Handles == 1..NumHandles
Null == -1
GateP(g) == <<"gate", g, 0>>
DerivedP(w, level) == <<"derived", w, level>>
LatchPromises ==
  {GateP(g) : g \in 0..MaxGates}
    \cup {DerivedP(w, l) : w \in Waiters, l \in 0..MaxGates}

Tasks == 1..NumTasks
\* every computation of line 121 waits for at least one task of its own
Frees == 1..NumTasks
ResolvedP == <<"resolved", 0, 0>>
TaskP(t) == <<"task", t, 0>>
CaughtP(t) == <<"caught", t, 0>>
AllSettledP(n) == <<"allSettled", n, 0>>
FreeP(n) == <<"free", n, 0>>
BarrierPromises ==
  {ResolvedP} \cup {TaskP(t) : t \in Tasks} \cup {CaughtP(t) : t \in Tasks}
    \cup {AllSettledP(n) : n \in Frees} \cup {FreeP(n) : n \in Frees}

SettledAtStart == {MutexInitP} \cup RWInitPromises \cup {ResolvedP}
PromiseIds ==
  MutexPromises \cup RWPromises \cup LatchPromises \cup BarrierPromises

Job(kind, who, src) == [kind |-> kind, who |-> who, src |-> src]

\* The promise heap as one value, so that a handler's steps compose.
Heap == [st |-> pstate, rx |-> reactions, mq |-> microtasks]

SetHeap(h) ==
  /\ pstate' = h.st
  /\ reactions' = h.rx
  /\ microtasks' = h.mq

\* resolve()/reject() of a promise's resolving functions: the first call
\* settles the promise and queues its reactions in registration order, any
\* later call does nothing.
Settle(h, p, outcome) ==
  IF h.st[p] = "pending"
  THEN [st |-> [h.st EXCEPT ![p] = outcome],
        rx |-> [h.rx EXCEPT ![p] = <<>>],
        mq |-> h.mq \o h.rx[p]]
  ELSE h

Resolve(h, p) == Settle(h, p, "fulfilled")

\* PerformPromiseThen (p.then(...), await p): a reaction on a pending promise
\* waits in its list, one on a settled promise is queued at once.
Then(h, p, job) ==
  IF h.st[p] = "pending"
  THEN [h EXCEPT !.rx[p] = Append(@, job)]
  ELSE [h EXCEPT !.mq = Append(@, job)]

Enqueue(h, job) == [h EXCEPT !.mq = Append(@, job)]

Pop(h) == [h EXCEPT !.mq = Tail(@)]

NextJobIs(kind) == microtasks # <<>> /\ Head(microtasks).kind = kind

\* Code outside the library runs in a macrotask (the queue is empty) or in a
\* microtask of its own; envTurn is TRUE exactly then.
EnvAfter(h, envJob) == envJob \/ h.mq = <<>>

HasEnvJob == \E i \in 1..Len(microtasks) : microtasks[i].kind = "env"

\* The caller queues a microtask of its own (queueMicrotask, an await of a
\* settled value) and goes on in it later.  With nothing queued before it,
\* this is the same as going on at once, so that case is left out.
EnvDefer ==
  /\ envTurn
  /\ microtasks # <<>>
  /\ ~HasEnvJob
  /\ SetHeap(Enqueue(Heap, Job("env", 0, NoP)))
  /\ envTurn' = TRUE

RunEnv ==
  /\ NextJobIs("env")
  /\ SetHeap(Pop(Heap))
  /\ envTurn' = TRUE

\* ------------------------------------------------------------ Mutex
MutexInit ==
  /\ m_lastPromise = MutexInitP
  /\ threads = [c \in Threads |->
                 [st |-> "idle", via |-> "obtain", bypass |-> FALSE,
                  failed |-> FALSE, releases |-> 0]]
  /\ callOrder = <<>>
  /\ grantOrder = <<>>

EngineInit ==
  /\ pstate = [p \in PromiseIds |->
                 IF p \in SettledAtStart THEN "fulfilled" ELSE "pending"]
  /\ reactions = [p \in PromiseIds |-> <<>>]
  /\ microtasks = <<>>
  /\ envTurn = TRUE

\* MutexRW's fields as declared (lines 88-92)
RWInit ==
  /\ m_nextRWPromise = NextRWInitP
  /\ m_lastRWPromise = LastRWInitP
  /\ m_lastROPromise = LastROInitP
  /\ roAccessCnt = 0
  /\ rwAccess = FALSE
  /\ allRemaining = [a \in Accessors |-> 0]
  /\ accessors = [a \in Accessors |->
                   [st |-> "idle", mode |-> "ro", releases |-> 0]]

\* new Latch(): the constructor calls close() (lines 20-29, 68)
LatchInit ==
  /\ m_open = 0
  /\ m_gate = 0
  /\ m_inUse = 0
  /\ gatesMade = 1
  /\ waiters = [w \in Waiters |->
                 [st |-> "idle", level |-> 0, gate |-> 0, closedAtGet |-> FALSE,
                  openedSinceGet |-> FALSE, flipped |-> FALSE,
                  openedSinceFlip |-> FALSE, usesAtGet |-> 0]]
  /\ handles = [d \in Handles |->
                 [st |-> "unused", hasCond |-> FALSE, disposals |-> 0]]
  /\ lastOp = "none"
  /\ forced = FALSE

\* PromiseBarrier's fields as declared (lines 91, 109)
BarrierInit ==
  /\ m_activePromises = {}
  /\ m_cachedFree = Null
  /\ settledRemaining = [n \in Frees |-> 0]
  /\ freesMade = 0
  /\ tasks = [t \in Tasks |-> "unused"]
  /\ lastRead = Null
  /\ obtainedPending = {}

Init == EngineInit /\ MutexInit /\ RWInit /\ LatchInit /\ BarrierInit

OnlyMutex == UNCHANGED <<rwVars, latchVars, barrierVars>>

OnlyRW == UNCHANGED <<mutexVars, latchVars, barrierVars>>

OnlyLatch == UNCHANGED <<mutexVars, rwVars, barrierVars>>

OnlyBarrier == UNCHANGED <<mutexVars, rwVars, latchVars>>

\* What the caller's await of obtain()/lock() resumes: lock() awaits obtain()
\* itself and the caller awaits lock(), one microtask more.
AfterObtain(c, via) ==
  IF via = "lock" THEN Job("lockResume", c, NoP) ELSE Job("cont", c, NoP)

\* line 41, await lastPromise
ObtainAwait_NoWait(h, lastPromise, c) ==
  Enqueue(h, Job("obtainResume", c, lastPromise))

ObtainAwait(h, lastPromise, c) ==
  Then(h, lastPromise, Job("obtainResume", c, lastPromise))

\* line 40: the promise made for this call becomes the tail
NewTail_Kept(c) == m_lastPromise

NewTail(c) == LockP(c)

\* Mutex.obtain(bypass), up to its await (lines 36-41).  The callers are
\* interchangeable, so they are numbered in the order of their calls.
Obtain(c, bypass, via) ==
  /\ envTurn
  /\ threads[c].st = "idle"
  /\ \A d \in Threads : d < c => threads[d].st # "idle"
  /\ IF bypass
     THEN /\ SetHeap(Enqueue(Heap, AfterObtain(c, via)))
          /\ threads' = [threads EXCEPT ![c].st = "granted",
                                        ![c].via = via, ![c].bypass = TRUE]
          /\ UNCHANGED <<m_lastPromise, callOrder>>
     ELSE LET lastPromise == m_lastPromise IN
          /\ m_lastPromise' = NewTail(c)
          /\ SetHeap(ObtainAwait(Heap, lastPromise, c))
          /\ threads' = [threads EXCEPT ![c].st = "waiting", ![c].via = via]
          /\ callOrder' = Append(callOrder, c)
  /\ envTurn' = TRUE
  /\ UNCHANGED grantOrder
  /\ OnlyMutex

CallObtain == \E c \in Threads, bypass \in BOOLEAN : Obtain(c, bypass, "obtain")

\* Mutex.lock(bypass) (lines 60-64): obtain, then wrap the release function
CallLock == \E c \in Threads, bypass \in BOOLEAN : Obtain(c, bypass, "lock")

\* obtain() resumes after its await and returns release (line 42)
RunObtainResume ==
  /\ NextJobIs("obtainResume")
  /\ LET c == Head(microtasks).who
         h == Enqueue(Pop(Heap), AfterObtain(c, threads[c].via)) IN
       /\ SetHeap(h)
       /\ threads' = [threads EXCEPT ![c].st = "granted"]
       /\ grantOrder' = Append(grantOrder, c)
       /\ envTurn' = EnvAfter(h, FALSE)
  /\ UNCHANGED <<m_lastPromise, callOrder>>
  /\ OnlyMutex

\* lock() resumes after its await of obtain() and returns the disposable
RunLockResume ==
  /\ NextJobIs("lockResume")
  /\ LET c == Head(microtasks).who
         h == Enqueue(Pop(Heap), Job("cont", c, NoP)) IN
       /\ SetHeap(h)
       /\ envTurn' = EnvAfter(h, FALSE)
  /\ UNCHANGED mutexVars
  /\ OnlyMutex

\* the caller resumes after its await, holding the release token
RunCont ==
  /\ NextJobIs("cont")
  /\ LET c == Head(microtasks).who IN
       threads' = [threads EXCEPT ![c].st = "holding"]
  /\ SetHeap(Pop(Heap))
  /\ envTurn' = TRUE
  /\ UNCHANGED <<m_lastPromise, callOrder, grantOrder>>
  /\ OnlyMutex

\* the release token: the resolve function of the promise made at line 40,
\* or releaseStub (lines 1-3) for a bypassed call
ReleaseToken_Tail(h, c) ==
  IF threads[c].bypass THEN h ELSE Resolve(h, m_lastPromise)

ReleaseToken_Nothing(h, c) == h

ReleaseToken_Again(h, c) ==
  IF threads[c].bypass THEN h
  ELSE IF h.st[LockP(c)] = "pending" THEN Resolve(h, LockP(c))
  ELSE Resolve(h, m_lastPromise)

ReleaseToken_StubSettles(h, c) ==
  IF threads[c].bypass THEN Resolve(h, m_lastPromise) ELSE Resolve(h, LockP(c))

ReleaseToken(h, c) ==
  IF threads[c].bypass THEN h ELSE Resolve(h, LockP(c))

\* The holder invokes its release token, at the end of its critical section
\* or, when the section fails, in its finally block or scope exit; the token
\* may be invoked again later.
Release ==
  \E c \in Threads, err \in BOOLEAN :
    /\ envTurn
    /\ threads[c].st \in {"holding", "released"}
    /\ threads[c].releases < MaxReleases
    /\ threads[c].st = "released" => err = threads[c].failed
    /\ SetHeap(ReleaseToken(Heap, c))
    /\ threads' = [threads EXCEPT ![c].st = "released", ![c].failed = err,
                                  ![c].releases = @ + 1]
    /\ envTurn' = TRUE
    /\ UNCHANGED <<m_lastPromise, callOrder, grantOrder>>
    /\ OnlyMutex

MutexEnvDefer == EnvDefer /\ UNCHANGED mutexVars /\ OnlyMutex

MutexRunEnv == RunEnv /\ UNCHANGED mutexVars /\ OnlyMutex

MutexNext ==
  \/ CallObtain
  \/ CallLock
  \/ RunObtainResume
  \/ RunLockResume
  \/ RunCont
  \/ Release
  \/ MutexEnvDefer
  \/ MutexRunEnv

SpecMutex == Init /\ [][MutexNext]_vars

\* the event loop runs the microtask at the head of the queue
MutexJobs == RunObtainResume \/ RunLockResume \/ RunCont \/ MutexRunEnv

\* holder c invokes its release token for the first time
FirstRelease(c) ==
  Release /\ threads[c].st = "holding" /\ threads'[c].st = "released"

\* The event loop never leaves a queued microtask unrun, and every holder
\* invokes its release token at some time.
SpecMutexLive ==
  /\ SpecMutex
  /\ WF_vars(MutexJobs)
  /\ \A c \in Threads : WF_vars(FirstRelease(c))

\* ------------------------------------------------------------ Mutex claims
Holders == {c \in Threads : ~threads[c].bypass /\ threads[c].st \in {"granted", "holding"}}

\* C1: at most one non-bypass caller has been granted the lock and has not
\* yet released it, whatever the interleaving of obtain()/lock() calls and
\* releases, and also when critical sections fail before releasing.
C1_MutualExclusion == Cardinality(Holders) <= 1

\* C1 witness: a holder failed and released, and the next caller holds.
C1_Witness ==
  \E c, d \in Threads :
    /\ threads[c].st = "released" /\ threads[c].failed /\ ~threads[c].bypass
    /\ threads[d].st = "holding" /\ ~threads[d].bypass
    /\ \E e \in Threads : threads[e].st = "waiting"

\* C5: non-bypass callers are granted the lock in the order of their
\* obtain() calls: the grants so far are the first callers, in call order.
C5_Fifo ==
  /\ Len(grantOrder) <= Len(callOrder)
  /\ \A i \in 1..Len(grantOrder) : grantOrder[i] = callOrder[i]

\* C5 witness: every thread called without bypass and was granted in turn.
C5_Witness == Len(grantOrder) = NumThreads /\ NumThreads >= 2

\* the non-bypass callers whose obtain() has returned
Served ==
  {c \in Threads :
     ~threads[c].bypass /\ threads[c].st \in {"granted", "holding", "released"}}

\* C13: a non-bypass caller is granted only when every non-bypass caller
\* that called before it has invoked its release token; so while a holder
\* has not released, no later non-bypass caller is granted.
C13_HandOffNeedsRelease ==
  \A i, j \in 1..Len(callOrder) :
    (i < j /\ callOrder[j] \in Served) => threads[callOrder[i]].releases > 0

\* C13 witness: the second caller holds after the first released, and the
\* third still waits behind the second.
C13_Witness ==
  /\ Len(callOrder) >= 3
  /\ threads[callOrder[1]].st = "released"
  /\ threads[callOrder[2]].st = "holding"
  /\ threads[callOrder[3]].st = "waiting"

\* C14: when every holder invokes its release token at some time, every
\* non-bypass call of obtain() or lock() that waits is granted at some time.
C14_Progress ==
  \A c \in Threads : (threads[c].st = "waiting") ~> (c \in Served)

\* C14 witness: all callers have been granted and have released, one of
\* them through lock() with a failing critical section.
C14_Witness ==
  /\ \A c \in Threads : ~threads[c].bypass /\ threads[c].st = "released"
  /\ \E c \in Threads : threads[c].via = "lock" /\ threads[c].failed

\* a step in which caller c calls obtain(true) or lock(true)
BypassCallStep(c) ==
  threads[c].st = "idle" /\ threads'[c].st # "idle" /\ threads'[c].bypass

\* a step in which caller c invokes its release token
ReleaseStep(c) == threads'[c].releases = threads[c].releases + 1

\* C12: a bypassed call is granted in the step of the call, whoever holds
\* the lock; it leaves m_lastPromise, every promise and every reaction list
\* as they were, and so does every invocation of its release token, which
\* queues no microtask either; no other caller's state changes in these
\* steps.
C12_Bypass ==
  [][\A c \in Threads :
       /\ BypassCallStep(c) =>
            /\ threads'[c].st = "granted"
            /\ m_lastPromise' = m_lastPromise
            /\ pstate' = pstate /\ reactions' = reactions
            /\ callOrder' = callOrder /\ grantOrder' = grantOrder
            /\ \A d \in Threads \ {c} : threads'[d] = threads[d]
       /\ (threads[c].bypass /\ ReleaseStep(c)) =>
            /\ m_lastPromise' = m_lastPromise
            /\ pstate' = pstate /\ reactions' = reactions
            /\ microtasks' = microtasks
            /\ callOrder' = callOrder /\ grantOrder' = grantOrder
            /\ \A d \in Threads \ {c} : threads'[d] = threads[d]]_vars

\* C12 witness: a bypassed caller was granted and has released while
\* another caller holds the lock and a third one waits for it.
C12_Witness ==
  \E c, d, e \in Threads :
    /\ threads[c].bypass /\ threads[c].st = "released"
    /\ d < c /\ ~threads[d].bypass /\ threads[d].st = "holding"
    /\ ~threads[e].bypass /\ threads[e].st = "waiting"

\* C19: invoking a release token again, however much later, changes neither
\* a promise, a reaction list, the microtask queue, the tail nor another
\* caller's state, and mutual exclusion holds after it as before.
C19_ReleaseIdempotent ==
  [][\A c \in Threads :
       (threads[c].releases > 0 /\ ReleaseStep(c)) =>
         /\ pstate' = pstate /\ reactions' = reactions
         /\ microtasks' = microtasks
         /\ m_lastPromise' = m_lastPromise
         /\ callOrder' = callOrder /\ grantOrder' = grantOrder
         /\ \A d \in Threads \ {c} : threads'[d] = threads[d]
         /\ Cardinality(Holders') <= 1]_vars

\* C19 witness: a token was invoked a second time while the next caller
\* holds the lock and a third one waits.
C19_Witness ==
  \E c, d, e \in Threads :
    /\ ~threads[c].bypass /\ threads[c].releases >= 2
    /\ ~threads[d].bypass /\ threads[d].st = "holding"
    /\ ~threads[e].bypass /\ threads[e].st = "waiting"

\* ------------------------------------------------------------ MutexRW
\* obtainRO past its wait (lines 103-107, 113): count the reader, fold its
\* promise into m_lastROPromise with Promise.all, register the decrement,
\* return releaseRO.  Promise.all registers a reaction on each element, in
\* order, before line 107 registers the decrement on thisROPromise.
ReaderAdmit(h, a) ==
  LET h1 == Then(h, ROP(a), Job("allElement", a, ROP(a)))
      h2 == Then(h1, m_lastROPromise, Job("allElement", a, m_lastROPromise))
      h3 == Then(h2, ROP(a), Job("roDecrement", a, ROP(a)))
      h4 == Enqueue(h3, Job("cont", a, NoP)) IN
  /\ roAccessCnt' = roAccessCnt + 1
  /\ m_lastROPromise' = AllP(a)
  /\ allRemaining' = [allRemaining EXCEPT ![a] = 2]
  /\ accessors' = [accessors EXCEPT ![a].st = "granted"]
  /\ SetHeap(h4)
  /\ envTurn' = EnvAfter(h4, envTurn)

\* line 102, the condition of obtainRO's wait loop
ReaderMustWait_Never == FALSE

ReaderMustWait_Queued ==
  rwAccess \/ \E w \in Accessors :
                accessors[w].mode = "rw" /\ accessors[w].st = "waiting"

ReaderMustWait == rwAccess

\* line 102: while (this.rwAccess) await this.m_lastRWPromise, then the rest
ReaderLoop(h, a) ==
  IF ReaderMustWait
  THEN LET h1 == Then(h, m_lastRWPromise, Job("roResume", a, m_lastRWPromise)) IN
       /\ SetHeap(h1)
       /\ accessors' = [accessors EXCEPT ![a].st = "waiting"]
       /\ envTurn' = EnvAfter(h1, envTurn)
       /\ UNCHANGED <<roAccessCnt, m_lastROPromise, allRemaining>>
  ELSE ReaderAdmit(h, a)

\* MutexRW.obtainRO(), up to its first suspension or its return.  The
\* callers are interchangeable and are numbered in the order of their calls.
CallObtainRO ==
  \E a \in Accessors :
    /\ envTurn
    /\ accessors[a].st = "idle"
    /\ \A b \in Accessors : b < a => accessors[b].st # "idle"
    /\ ReaderLoop(Heap, a)
    /\ UNCHANGED <<m_nextRWPromise, m_lastRWPromise, rwAccess>>
    /\ OnlyRW

\* obtainRO resumes from await this.m_lastRWPromise and tests rwAccess again
RunRoResume ==
  /\ NextJobIs("roResume")
  /\ ReaderLoop(Pop(Heap), Head(microtasks).who)
  /\ UNCHANGED <<m_nextRWPromise, m_lastRWPromise, rwAccess>>
  /\ OnlyRW

\* a reaction of Promise.all (line 106) on one element: the aggregate is
\* fulfilled when its last element is
RunAllElement ==
  /\ NextJobIs("allElement")
  /\ LET a == Head(microtasks).who
         h == IF allRemaining[a] = 1 THEN Resolve(Pop(Heap), AllP(a))
              ELSE Pop(Heap) IN
       /\ allRemaining' = [allRemaining EXCEPT ![a] = @ - 1]
       /\ SetHeap(h)
       /\ envTurn' = EnvAfter(h, FALSE)
  /\ UNCHANGED <<m_nextRWPromise, m_lastRWPromise, m_lastROPromise,
                 roAccessCnt, rwAccess, accessors>>
  /\ OnlyRW

\* line 107: thisROPromise.then(() => --this.roAccessCnt)
RunRoDecrement ==
  /\ NextJobIs("roDecrement")
  /\ roAccessCnt' = roAccessCnt - 1
  /\ SetHeap(Pop(Heap))
  /\ envTurn' = EnvAfter(Pop(Heap), FALSE)
  /\ UNCHANGED <<m_nextRWPromise, m_lastRWPromise, m_lastROPromise,
                 rwAccess, allRemaining, accessors>>
  /\ OnlyRW

\* line 146: the writer's promise becomes the tail of the writers' chain
NextRWTail_Kept(a) == m_nextRWPromise

NextRWTail_Initial(a) == NextRWInitP

NextRWTail(a) == RWP(a)

\* MutexRW.obtainRW(), up to await prevRWPromise (lines 143-147)
CallObtainRW ==
  \E a \in Accessors :
    /\ envTurn
    /\ accessors[a].st = "idle"
    /\ \A b \in Accessors : b < a => accessors[b].st # "idle"
    /\ LET prevRWPromise == m_nextRWPromise IN
         /\ m_nextRWPromise' = NextRWTail(a)
         /\ SetHeap(Then(Heap, prevRWPromise, Job("rwTurn", a, prevRWPromise)))
    /\ accessors' = [accessors EXCEPT ![a].st = "waiting", ![a].mode = "rw"]
    /\ envTurn' = TRUE
    /\ UNCHANGED <<m_lastRWPromise, m_lastROPromise, roAccessCnt, rwAccess,
                   allRemaining>>
    /\ OnlyRW

\* line 148, the condition of obtainRW's wait loop; first is TRUE when the
\* writer tests it for the first time
WriterMustWait_Once(first) == first /\ roAccessCnt # 0

WriterMustWait(first) == roAccessCnt # 0

\* lines 148-152: while (this.roAccessCnt) await this.m_lastROPromise, then
\* set rwAccess, publish the writer's promise, register the reset of rwAccess
\* and return releaseRW
WriterLoop(h, a, first) ==
  IF WriterMustWait(first)
  THEN LET h1 == Then(h, m_lastROPromise, Job("rwDrain", a, m_lastROPromise)) IN
       /\ SetHeap(h1)
       /\ envTurn' = EnvAfter(h1, FALSE)
       /\ UNCHANGED <<rwAccess, m_lastRWPromise, accessors>>
  ELSE LET h1 == Then(h, RWP(a), Job("rwClear", a, RWP(a)))
           h2 == Enqueue(h1, Job("cont", a, NoP)) IN
       /\ rwAccess' = TRUE
       /\ m_lastRWPromise' = RWP(a)
       /\ accessors' = [accessors EXCEPT ![a].st = "granted"]
       /\ SetHeap(h2)
       /\ envTurn' = EnvAfter(h2, FALSE)

\* obtainRW resumes from await prevRWPromise: its turn among the writers
RunRwTurn ==
  /\ NextJobIs("rwTurn")
  /\ WriterLoop(Pop(Heap), Head(microtasks).who, TRUE)
  /\ UNCHANGED <<m_nextRWPromise, m_lastROPromise, roAccessCnt, allRemaining>>
  /\ OnlyRW

\* obtainRW resumes from await this.m_lastROPromise and tests roAccessCnt again
RunRwDrain ==
  /\ NextJobIs("rwDrain")
  /\ WriterLoop(Pop(Heap), Head(microtasks).who, FALSE)
  /\ UNCHANGED <<m_nextRWPromise, m_lastROPromise, roAccessCnt, allRemaining>>
  /\ OnlyRW

\* line 151: this.m_lastRWPromise.then(() => (this.rwAccess = false))
RunRwClear ==
  /\ NextJobIs("rwClear")
  /\ rwAccess' = FALSE
  /\ SetHeap(Pop(Heap))
  /\ envTurn' = EnvAfter(Pop(Heap), FALSE)
  /\ UNCHANGED <<m_nextRWPromise, m_lastRWPromise, m_lastROPromise,
                 roAccessCnt, allRemaining, accessors>>
  /\ OnlyRW

\* the caller resumes after its await, holding releaseRO or releaseRW
RunRWCont ==
  /\ NextJobIs("cont")
  /\ LET a == Head(microtasks).who IN
       accessors' = [accessors EXCEPT ![a].st = "holding"]
  /\ SetHeap(Pop(Heap))
  /\ envTurn' = TRUE
  /\ UNCHANGED <<m_nextRWPromise, m_lastRWPromise, m_lastROPromise,
                 roAccessCnt, rwAccess, allRemaining>>
  /\ OnlyRW

\* releaseRO and releaseRW are the resolve functions of thisROPromise
\* (line 105) and thisRWPromise (line 145)
ReleaseRWToken_Nothing(h, a) == h

ReleaseRWToken_Again(h, a) ==
  IF accessors[a].mode = "ro"
  THEN IF h.st[ROP(a)] = "pending" THEN Resolve(h, ROP(a))
       ELSE Enqueue(h, Job("roDecrement", a, ROP(a)))
  ELSE Resolve(h, RWP(a))

ReleaseRWToken(h, a) ==
  IF accessors[a].mode = "ro" THEN Resolve(h, ROP(a)) ELSE Resolve(h, RWP(a))

\* A reader or writer invokes its release token (in its finally block or at
\* scope exit); the token may be invoked again later.
ReleaseRW ==
  \E a \in Accessors :
    /\ envTurn
    /\ accessors[a].st \in {"holding", "released"}
    /\ accessors[a].releases < MaxReleases
    /\ SetHeap(ReleaseRWToken(Heap, a))
    /\ accessors' = [accessors EXCEPT ![a].st = "released",
                                      ![a].releases = @ + 1]
    /\ envTurn' = TRUE
    /\ UNCHANGED <<m_nextRWPromise, m_lastRWPromise, m_lastROPromise,
                   roAccessCnt, rwAccess, allRemaining>>
    /\ OnlyRW

RWEnvDefer == EnvDefer /\ UNCHANGED rwVars /\ OnlyRW

RWRunEnv == RunEnv /\ UNCHANGED rwVars /\ OnlyRW

RWNext ==
  \/ CallObtainRO
  \/ CallObtainRW
  \/ RunRoResume
  \/ RunAllElement
  \/ RunRoDecrement
  \/ RunRwTurn
  \/ RunRwDrain
  \/ RunRwClear
  \/ RunRWCont
  \/ ReleaseRW
  \/ RWEnvDefer
  \/ RWRunEnv

SpecRW == Init /\ [][RWNext]_vars

\* the event loop runs the microtask at the head of the queue
RWJobs ==
  \/ RunRoResume
  \/ RunAllElement
  \/ RunRoDecrement
  \/ RunRwTurn
  \/ RunRwDrain
  \/ RunRwClear
  \/ RunRWCont
  \/ RWRunEnv

\* reader or writer a invokes its release token for the first time
FirstReleaseRW(a) ==
  ReleaseRW /\ accessors[a].st = "holding" /\ accessors'[a].st = "released"

\* The event loop never leaves a queued microtask unrun, and every granted
\* reader and writer invokes its release token at some time.
SpecRWLive ==
  /\ SpecRW
  /\ WF_vars(RWJobs)
  /\ \A a \in Accessors : WF_vars(FirstReleaseRW(a))

\* ------------------------------------------------------------ MutexRW claims
Granted(a) == accessors[a].st \in {"granted", "holding"}

Readers == {a \in Accessors : accessors[a].mode = "ro" /\ Granted(a)}

Writers == {a \in Accessors : accessors[a].mode = "rw" /\ Granted(a)}

GrantStep(a, mode) ==
  /\ accessors[a].st \in {"idle", "waiting"}
  /\ accessors'[a].st = "granted"
  /\ accessors'[a].mode = mode

\* C2: no reader is granted the read lock while a writer that was granted
\* the write lock has not yet released it.
C2_ReaderAdmission ==
  [][\A a \in Accessors : GrantStep(a, "ro") => Writers = {}]_vars

\* C3: no writer is granted the write lock while a reader that was granted
\* the read lock has not yet released it, readers that joined while the
\* writer was waiting for the readers to drain included.
C3_WriterAdmission ==
  [][\A a \in Accessors : GrantStep(a, "rw") => Readers = {}]_vars

\* C3 witness: a writer that had to wait for a reader has been granted.
C3_Witness ==
  \E a, b \in Accessors :
    /\ a < b
    /\ accessors[a].mode = "ro" /\ accessors[a].st = "released"
    /\ accessors[b].mode = "rw" /\ Granted(b)
    /\ \E c \in Accessors : c > b /\ accessors[c].mode = "ro" /\ accessors[c].st = "released"

\* C4: at most one writer has been granted the write lock and has not yet
\* released it.
C4_WriterExclusion == Cardinality(Writers) <= 1

\* C4 witness: a second writer holds after the first released.
C4_Witness ==
  \E a, b \in Accessors :
    /\ a # b
    /\ accessors[a].mode = "rw" /\ accessors[a].st = "released"
    /\ accessors[b].mode = "rw" /\ accessors[b].st = "holding"

\* the callers whose obtainRO()/obtainRW() has returned
ServedRW == {a \in Accessors : accessors[a].st \in {"granted", "holding", "released"}}

\* the callers of obtainRW()
WriterCalls == {a \in Accessors : accessors[a].mode = "rw" /\ accessors[a].st # "idle"}

\* A reader has released and nothing refers to its promises any more.
Retired(a) ==
  /\ accessors[a].mode = "ro" /\ accessors[a].st = "released"
  /\ pstate[ROP(a)] = "fulfilled" /\ pstate[AllP(a)] = "fulfilled"
  /\ allRemaining[a] = 0
  /\ m_lastROPromise # AllP(a)
  /\ \A i \in 1..Len(microtasks) :
       /\ microtasks[i].who # a \/ microtasks[i].kind = "env"
       /\ microtasks[i].src \notin {ROP(a), AllP(a)}

\* New readers keep coming: a reader that has retired is forgotten, and a
\* later call of obtainRO() (a new caller, with new promises) takes its
\* place in the model.
ReaderRetires ==
  \E a \in Accessors :
    /\ Retired(a)
    /\ pstate' = [pstate EXCEPT ![ROP(a)] = "pending", ![AllP(a)] = "pending"]
    /\ accessors' = [accessors EXCEPT
                       ![a] = [st |-> "idle", mode |-> "ro", releases |-> 0]]
    /\ UNCHANGED <<reactions, microtasks, envTurn, m_nextRWPromise,
                   m_lastRWPromise, m_lastROPromise, roAccessCnt, rwAccess,
                   allRemaining>>
    /\ OnlyRW

RWStreamNext ==
  \/ CallObtainRO
  \/ CallObtainRW
  \/ RunRoResume
  \/ RunAllElement
  \/ RunRoDecrement
  \/ RunRwTurn
  \/ RunRwDrain
  \/ RunRwClear
  \/ RunRWCont
  \/ ReleaseRW
  \/ RWEnvDefer
  \/ RWRunEnv
  \/ ReaderRetires

\* Readers without end: the event loop never leaves a queued microtask
\* unrun, and every granted reader and writer invokes its release token.
SpecRWStream ==
  /\ Init /\ [][RWStreamNext]_vars
  /\ WF_vars(RWJobs)
  /\ \A a \in Accessors : SF_vars(FirstReleaseRW(a))

\* C17: a writer that waits in obtainRW() is granted at some time, also
\* when new readers keep calling obtainRO().
C17_NoWriterStarvation ==
  \A a \in Accessors :
    (accessors[a].mode = "rw" /\ accessors[a].st = "waiting") ~> (a \in ServedRW)

\* every call made has been granted and released, and no callback is left
QuietRW ==
  /\ microtasks = <<>>
  /\ \A a \in Accessors : accessors[a].st \in {"idle", "released"}

\* C15: when every granted reader and writer invokes its release token at
\* some time, every waiting obtainRO()/obtainRW() call is granted at some
\* time, and once all have released and the callbacks have run roAccessCnt
\* is 0 and rwAccess is false.
C15_Progress ==
  /\ \A a \in Accessors : (accessors[a].st = "waiting") ~> (a \in ServedRW)
  /\ [](QuietRW => (roAccessCnt = 0 /\ ~rwAccess))

\* C15 witness: readers and writers, all called, have all been granted and
\* have released, and nothing is left to run.
C15_Witness ==
  /\ QuietRW
  /\ \A a \in Accessors : accessors[a].st = "released"
  /\ \E a, b \in Accessors : accessors[a].mode = "ro" /\ accessors[b].mode = "rw"

\* C16: writers are granted in the order in which they called obtainRW():
\* a writer is granted only when every writer that called before it has
\* been granted, however readers interleave.
C16_WriterFifo ==
  \A a, b \in WriterCalls : (a < b /\ b \in ServedRW) => a \in ServedRW

\* C16 witness: two writers were granted in the order of their calls, with
\* a reader that called between them granted as well.
C16_Witness ==
  \E a, b, c \in Accessors :
    /\ a < c /\ c < b
    /\ {a, b} \subseteq WriterCalls
    /\ accessors[c].mode = "ro" /\ c \in ServedRW
    /\ accessors[a].st = "released"
    /\ accessors[b].st = "holding"

\* C18: rwAccess is never true while roAccessCnt is greater than 0.
C18_FlagInvariant == ~(rwAccess /\ roAccessCnt > 0)

\* C18 witness: a writer has set rwAccess after a reader's release brought
\* roAccessCnt back to 0, and another reader waits for the writer.
C18_Witness ==
  /\ rwAccess
  /\ roAccessCnt = 0
  /\ \E a, b \in Accessors :
       /\ accessors[a].mode = "ro" /\ accessors[a].st = "released"
       /\ accessors[b].mode = "ro" /\ accessors[b].st = "waiting"

\* C27: rwAccess is true in every state in which a writer has been granted
\* the write lock and has not yet released it.
C27_FlagTracksHolder == Writers # {} => rwAccess

\* the writers that have called obtainRW() and have not been granted
QueuedWriters ==
  {w \in Accessors : accessors[w].mode = "rw" /\ accessors[w].st = "waiting"}

\* the step in which a calls obtainRO()
CallROStep(a) ==
  accessors[a].st = "idle" /\ accessors'[a].st # "idle"
    /\ accessors'[a].mode = "ro"

\* C28: a reader that calls obtainRO() while a writer is queued and
\* rwAccess is not set is granted in that call, and the queued writer is
\* granted only when every reader that called after it and was granted has
\* released.
C28_ReaderIgnoresQueuedWriters ==
  [][/\ \A a \in Accessors :
          (CallROStep(a) /\ QueuedWriters # {} /\ ~rwAccess) =>
            /\ accessors'[a].st = "granted"
            /\ roAccessCnt' = roAccessCnt + 1
            /\ QueuedWriters' = QueuedWriters
     /\ \A w \in QueuedWriters :
          GrantStep(w, "rw") =>
            \A a \in Accessors :
              (a > w /\ accessors[a].mode = "ro") =>
                accessors[a].st \in {"idle", "waiting", "released"}]_vars

\* C28 witness: a writer that waited for a first reader waits again, for a
\* reader that called obtainRO() after it and was granted, the first
\* reader having released.
C28_Witness ==
  \E a, w, b \in Accessors :
    /\ a < w /\ w < b
    /\ accessors[a].mode = "ro" /\ accessors[a].st = "released"
    /\ w \in QueuedWriters
    /\ accessors[b].mode = "ro" /\ accessors[b].st = "holding"
    /\ ~rwAccess
    /\ \E i \in 1..Len(reactions[AllP(b)]) :
         reactions[AllP(b)][i].kind = "rwDrain" /\ reactions[AllP(b)][i].who = w

\* the decrements of line 107 that are queued and have not run
QueuedDecrements ==
  {i \in 1..Len(microtasks) : microtasks[i].kind = "roDecrement"}

\* C30: roAccessCnt is never negative and never less than the number of
\* readers that have been granted the read lock and have not released it:
\* it counts these readers and the released readers whose decrement is
\* queued, however often a release token is invoked.
C30_ReaderCount ==
  /\ roAccessCnt >= 0
  /\ roAccessCnt >= Cardinality(Readers)
  /\ roAccessCnt = Cardinality(Readers) + Cardinality(QueuedDecrements)

\* C30 witness: a reader has invoked its release token twice and its
\* decrement has run, while another reader holds the read lock.
C30_Witness ==
  \E a, b \in Accessors :
    /\ accessors[a].mode = "ro" /\ accessors[a].st = "released"
    /\ accessors[a].releases >= 2
    /\ accessors[b].mode = "ro" /\ accessors[b].st = "holding"
    /\ QueuedDecrements = {}
    /\ roAccessCnt = Cardinality(Readers)
    /\ roAccessCnt >= 1

\* ------------------------------------------------------------ Latch
\* The latch's promise-related state as one value, so that use() and the
\* disposal can call close() and open().
Latch == [h |-> Heap, open |-> m_open, gate |-> m_gate, made |-> gatesMade]

SetLatch(L) ==
  /\ SetHeap(L.h)
  /\ m_open' = L.open
  /\ m_gate' = L.gate
  /\ gatesMade' = L.made

LatchOpen_Unsettled(L) == [L EXCEPT !.open = Null]

\* Latch.open() (lines 47-51)
LatchOpen(L) ==
  IF L.open = Null THEN L
  ELSE [L EXCEPT !.h = Resolve(L.h, GateP(L.open)), !.open = Null]

\* line 64: the resolver close() invokes is the one it saved at line 59
CloseSettles_New(old, new) == new

CloseSettles(old, new) == old

LatchClose_KeepsOld(L) ==
  [L EXCEPT !.gate = L.made, !.open = L.made, !.made = L.made + 1]

\* Latch.close() (lines 58-66)
LatchClose(L) ==
  LET new == L.made
      L1 == [L EXCEPT !.gate = new, !.open = new, !.made = new + 1] IN
  IF L.open # Null
  THEN [L1 EXCEPT !.h = Resolve(L1.h, GateP(CloseSettles(L.open, new)))]
  ELSE L1

Held == {d \in Handles : handles[d].st = "held"}

\* the number of use() calls made so far; handles are numbered in their order
UsesSoFar == Cardinality({d \in Handles : handles[d].st # "unused"})

Suspended(w) == waiters[w].st \in {"waiting", "checked"} /\ pstate[DerivedP(w, 0)] = "pending"

\* the reading of latch.gate (lines 38-41) by a task that awaits it
GetGate ==
  \E w \in Waiters :
    /\ envTurn
    /\ waiters[w].st = "idle"
    /\ \A v \in Waiters : v < w => waiters[v].st # "idle"
    /\ LET h1 == Then(Heap, GateP(m_gate), Job("gateThen", w, DerivedP(w, 0)))
           h2 == Then(h1, DerivedP(w, 0), Job("cont", w, DerivedP(w, 0))) IN
         SetHeap(h2)
    /\ waiters' = [waiters EXCEPT ![w].st = "waiting", ![w].gate = m_gate,
                                  ![w].closedAtGet = (m_open # Null),
                                  ![w].usesAtGet = UsesSoFar]
    /\ envTurn' = TRUE
    /\ lastOp' = "none"
    /\ UNCHANGED <<m_open, m_gate, m_inUse, gatesMade, handles, forced>>
    /\ OnlyLatch

\* line 40, the test of the then callback
StillCurrent_Always(gate) == TRUE

StillCurrent(gate) == m_gate = gate

\* line 40, the then callback: the future settles when the gate it waited
\* for is still the current one, and else takes up the promise of a new
\* reading of this.gate
RunGateThen ==
  /\ NextJobIs("gateThen")
  /\ LET w == Head(microtasks).who
         level == waiters[w].level IN
       IF StillCurrent(waiters[w].gate)
       THEN /\ SetHeap(Resolve(Pop(Heap), DerivedP(w, level)))
            /\ waiters' = [waiters EXCEPT ![w].st = "checked"]
            /\ envTurn' = EnvAfter(Resolve(Pop(Heap), DerivedP(w, level)), FALSE)
       ELSE LET h1 == Then(Pop(Heap), GateP(m_gate),
                           Job("gateThen", w, DerivedP(w, level + 1)))
                h2 == Enqueue(h1, Job("thenable", w, DerivedP(w, level))) IN
            /\ SetHeap(h2)
            /\ waiters' = [waiters EXCEPT ![w].level = level + 1,
                                          ![w].gate = m_gate]
            /\ envTurn' = EnvAfter(h2, FALSE)
  /\ lastOp' = "none"
  /\ UNCHANGED <<m_open, m_gate, m_inUse, gatesMade, handles, forced>>
  /\ OnlyLatch

\* a promise resolved with another promise: the job that calls the inner
\* promise's then with the outer promise's resolving functions
RunThenable ==
  /\ NextJobIs("thenable")
  /\ LET w == Head(microtasks).who
         outer == Head(microtasks).src
         inner == DerivedP(w, outer[3] + 1)
         h == Then(Pop(Heap), inner, Job("adopt", w, outer)) IN
       /\ SetHeap(h)
       /\ envTurn' = EnvAfter(h, FALSE)
  /\ lastOp' = "none"
  /\ UNCHANGED <<m_open, m_gate, m_inUse, gatesMade, waiters, handles,
                 forced>>
  /\ OnlyLatch

\* the inner promise is fulfilled: the outer promise takes its state
RunAdopt ==
  /\ NextJobIs("adopt")
  /\ LET h == Resolve(Pop(Heap), Head(microtasks).src) IN
       /\ SetHeap(h)
       /\ envTurn' = EnvAfter(h, FALSE)
  /\ lastOp' = "none"
  /\ UNCHANGED <<m_open, m_gate, m_inUse, gatesMade, waiters, handles,
                 forced>>
  /\ OnlyLatch

\* a task that has resumed; what it waited for is no longer recorded
PassedWaiter ==
  [st |-> "passed", level |-> 0, gate |-> 0, closedAtGet |-> FALSE,
   openedSinceGet |-> FALSE, flipped |-> FALSE, openedSinceFlip |-> FALSE,
   usesAtGet |-> 0]

\* the task resumes after await latch.gate
RunLatchCont ==
  /\ NextJobIs("cont")
  /\ LET w == Head(microtasks).who IN
       waiters' = [waiters EXCEPT ![w] = PassedWaiter]
  /\ SetHeap(Pop(Heap))
  /\ envTurn' = TRUE
  /\ lastOp' = "none"
  /\ UNCHANGED <<m_open, m_gate, m_inUse, gatesMade, handles, forced>>
  /\ OnlyLatch

NoteOpen(ws) ==
  [w \in Waiters |->
    IF Suspended(w)
    THEN [ws[w] EXCEPT !.openedSinceGet = ws[w].closedAtGet,
                       !.openedSinceFlip = ws[w].flipped]
    ELSE ws[w]]

\* a call of latch.open() from outside the latch
CallOpen ==
  /\ envTurn
  /\ SetLatch(LatchOpen(Latch))
  /\ waiters' = NoteOpen(waiters)
  /\ lastOp' = "open"
  /\ forced' = TRUE
  /\ envTurn' = TRUE
  /\ UNCHANGED <<m_inUse, handles>>
  /\ OnlyLatch

\* a call of latch.close() from outside the latch; one that follows a call
\* of open() at once is a state flip for the tasks suspended then
CallClose ==
  /\ envTurn
  /\ gatesMade <= MaxGates
  /\ SetLatch(LatchClose(Latch))
  /\ waiters' = [w \in Waiters |->
                  IF lastOp = "open" /\ Suspended(w)
                  THEN [waiters[w] EXCEPT !.flipped = TRUE,
                                          !.openedSinceFlip = FALSE]
                  ELSE waiters[w]]
  /\ lastOp' = "none"
  /\ envTurn' = TRUE
  /\ UNCHANGED <<m_inUse, handles, forced>>
  /\ OnlyLatch

\* Latch.use(condition) (lines 85-95)
CallUse ==
  \E d \in Handles, hasCond \in BOOLEAN :
    /\ envTurn
    /\ gatesMade <= MaxGates
    /\ handles[d].st = "unused"
    /\ \A e \in Handles : e < d => handles[e].st # "unused"
    /\ m_inUse' = m_inUse + 1
    /\ SetLatch(LatchClose(Latch))
    /\ handles' = [handles EXCEPT ![d].st = "held", ![d].hasCond = hasCond]
    /\ lastOp' = "none"
    /\ envTurn' = TRUE
    /\ UNCHANGED <<waiters, forced>>
    /\ OnlyLatch

\* lines 90-91: whether the disposal goes on to call open(); inUse is the
\* counter after the decrement
DisposeOpens_AnyCount(inUse, hasCond, result) == ~hasCond \/ result

DisposeOpens(inUse, hasCond, result) == inUse = 0 /\ (~hasCond \/ result)

\* lines 90-91: whether the disposal calls condition(); && evaluates its
\* right operand only when the left one is true
ConditionCalled_Always(inUse, hasCond) == hasCond

ConditionCalled(inUse, hasCond) == inUse = 0 /\ hasCond

\* [Symbol.dispose]() of a handle (lines 89-93); result is what condition()
\* returns when it is called
Dispose ==
  \E d \in Handles, result \in BOOLEAN :
    /\ envTurn
    /\ handles[d].st \in {"held", "disposed"}
    /\ handles[d].disposals < MaxDisposals
    /\ ~ConditionCalled(m_inUse - 1, handles[d].hasCond) => result
    /\ m_inUse' = m_inUse - 1
    /\ IF DisposeOpens(m_inUse - 1, handles[d].hasCond, result)
       THEN /\ SetLatch(LatchOpen(Latch))
            /\ waiters' = NoteOpen(waiters)
       ELSE /\ SetLatch(Latch)
            /\ UNCHANGED waiters
    /\ handles' = [handles EXCEPT ![d].st = "disposed",
                                  ![d].disposals = @ + 1]
    /\ forced' = (forced \/ handles[d].st = "disposed")
    /\ lastOp' = IF m_inUse - 1 # 0
                 THEN IF ConditionCalled(m_inUse - 1, handles[d].hasCond)
                      THEN "disposeMoreCond" ELSE "disposeMore"
                 ELSE IF ~handles[d].hasCond \/ result THEN "disposeLast"
                 ELSE "disposeLastFalse"
    /\ envTurn' = TRUE
    /\ OnlyLatch

LatchEnvDefer ==
  EnvDefer /\ lastOp' = "none" /\ OnlyLatch
    /\ UNCHANGED <<m_open, m_gate, m_inUse, gatesMade, waiters, handles,
                   forced>>

LatchRunEnv ==
  RunEnv /\ lastOp' = "none" /\ OnlyLatch
    /\ UNCHANGED <<m_open, m_gate, m_inUse, gatesMade, waiters, handles,
                   forced>>

LatchNext ==
  \/ GetGate
  \/ RunGateThen
  \/ RunThenable
  \/ RunAdopt
  \/ RunLatchCont
  \/ CallOpen
  \/ CallClose
  \/ CallUse
  \/ Dispose
  \/ LatchEnvDefer
  \/ LatchRunEnv

SpecLatch == Init /\ [][LatchNext]_vars

\* the event loop runs the microtask at the head of the queue
LatchJobs ==
  \/ RunGateThen
  \/ RunThenable
  \/ RunAdopt
  \/ RunLatchCont
  \/ LatchRunEnv

\* The event loop never leaves a queued microtask unrun.
SpecLatchLive == SpecLatch /\ WF_vars(LatchJobs)

\* ------------------------------------------------------------ Latch claims
GateResolved(w) == pstate[DerivedP(w, 0)] = "fulfilled"

\* C6: the latch starts closed, and a gate future obtained while the latch
\* is closed does not resolve before an open() performed after it was
\* obtained.
C6_GateBlocksWhileClosed ==
  /\ (gatesMade = 1 /\ ~forced) => m_open # Null
  /\ \A w \in Waiters :
       (waiters[w].closedAtGet /\ GateResolved(w)) => waiters[w].openedSinceGet

\* C6 witness: a future obtained after a close() that followed an open()
\* has resolved.
C6_Witness ==
  \E w \in Waiters :
    /\ waiters[w].closedAtGet
    /\ GateResolved(w)
    /\ waiters[w].level = 0
    /\ waiters[w].gate > 0

\* C7: a task suspended on a gate future when open() is followed at once
\* by close() resumes only after a later open().
C7_FlipKeepsBlocked ==
  \A w \in Waiters :
    (waiters[w].flipped /\ GateResolved(w)) => waiters[w].openedSinceFlip

\* C7 witness: a task behind a state flip has resumed after a later open().
C7_Witness ==
  \E w \in Waiters :
    waiters[w].flipped /\ GateResolved(w) /\ waiters[w].openedSinceFlip

\* C20: a call of open() leaves m_inUse as it was, and every task suspended
\* on a gate future while the latch is open resumes at some time unless
\* the latch is closed again.
C20_OpenReleasesAll ==
  /\ [][lastOp' = "open" => m_inUse' = m_inUse]_vars
  /\ \A w \in Waiters :
       (waiters[w].st \in {"waiting", "checked"} /\ m_open = Null)
         ~> (waiters[w].st = "passed" \/ m_open # Null)

\* C20 witness: open() has just been called on a latch that was closed and
\* held, with every task suspended on a gate future it obtained before.
C20_Witness ==
  /\ lastOp = "open"
  /\ m_open = Null
  /\ m_inUse > 0
  /\ \A w \in Waiters :
       /\ waiters[w].st = "waiting"
       /\ waiters[w].closedAtGet /\ waiters[w].openedSinceGet

\* C8: holdCount (m_inUse) > 0 implies that the latch is closed.
C8_HoldImpliesClosed == m_inUse > 0 => m_open # Null

C9_WitnessCondFalse ==
  ~forced /\ lastOp = "disposeLastFalse" /\ m_open # Null

\* the then callback of line 40 is registered for task w on the current gate
\* or is already queued
AwaitsCurrentGate(w, rx, mq, gate) ==
  \/ \E i \in 1..Len(rx[GateP(gate)]) :
       rx[GateP(gate)][i].kind = "gateThen" /\ rx[GateP(gate)][i].who = w
  \/ \E i \in 1..Len(mq) : mq[i].kind = "gateThen" /\ mq[i].who = w

\* the step in which the then callback of task w returns undefined
FinalCheckStep(w) ==
  waiters[w].st = "waiting" /\ waiters'[w].st = "checked"

\* the step in which the then callback of task w returns this.gate
ReawaitStep(w) ==
  waiters[w].st = "waiting" /\ waiters'[w].level = waiters[w].level + 1

\* C21: a gate future resolves only after a final check of its task, and at
\* the final check the gate the task awaited is settled and is the current
\* gate, with m_open null; a callback that finds another gate current
\* awaits the current gate anew.
C21_FinalCheck ==
  /\ [](\A w \in Waiters :
          GateResolved(w) => waiters[w].st \in {"checked", "passed"})
  /\ [][\A w \in Waiters :
          /\ FinalCheckStep(w) =>
               /\ pstate[GateP(waiters[w].gate)] = "fulfilled"
               /\ m_gate = waiters[w].gate
               /\ m_open = Null
               /\ pstate'[DerivedP(w, waiters[w].level)] = "fulfilled"
          /\ ReawaitStep(w) =>
               /\ m_gate # waiters[w].gate
               /\ waiters'[w].gate = m_gate
               /\ AwaitsCurrentGate(w, reactions', microtasks', m_gate)
               /\ pstate'[DerivedP(w, 0)] = "pending"]_vars

\* C21 witness: a task whose first gate was replaced has awaited the
\* current gate anew and has passed its final check on it.
C21_Witness ==
  \E w \in Waiters :
    /\ waiters[w].st = "checked"
    /\ waiters[w].level >= 1
    /\ m_gate = waiters[w].gate
    /\ m_open = Null

\* the gates close() has created so far
GatesSoFar == 0..(gatesMade - 1)

\* C22: every gate that a later close() has replaced is settled, the current
\* gate is unsettled exactly while m_open holds its resolver, and when the
\* latch is open from some time on, no task stays suspended on a gate
\* future.
C22_NoStrandedWaiter ==
  /\ [](/\ \A g \in GatesSoFar : g # m_gate => pstate[GateP(g)] = "fulfilled"
        /\ m_open \in {Null, m_gate}
        /\ (m_open = Null) <=> (pstate[GateP(m_gate)] = "fulfilled"))
  /\ \A w \in Waiters :
       <>[](m_open = Null) => <>[](waiters[w].st \notin {"waiting", "checked"})

\* C22 witness: the latch is closed, and a task is suspended on a gate
\* future whose gate was replaced by a later close().
C22_Witness ==
  \E w \in Waiters :
    /\ waiters[w].st = "waiting"
    /\ waiters[w].gate # m_gate
    /\ pstate[GateP(waiters[w].gate)] = "fulfilled"
    /\ m_open # Null

\* the step in which handle d is disposed
DisposalStep(d) == handles'[d].disposals = handles[d].disposals + 1

\* C29: a disposal that leaves m_inUse different from zero does not call
\* its condition and leaves the latch as it is; a disposal that brings
\* m_inUse to zero opens the latch exactly when its own handle has no
\* condition or its condition returns true then.
C29_ConditionOnLastRelease ==
  [][\A d \in Handles :
       DisposalStep(d) =>
         /\ m_inUse' # 0 =>
              /\ lastOp' = "disposeMore"
              /\ UNCHANGED <<m_open, m_gate, gatesMade, pstate, reactions,
                             microtasks, waiters>>
         /\ m_inUse' = 0 =>
              /\ lastOp' \in {"disposeLast", "disposeLastFalse"}
              /\ ~handles[d].hasCond => lastOp' = "disposeLast"
              /\ lastOp' = "disposeLast" => m_open' = Null
              /\ lastOp' = "disposeLastFalse" =>
                   UNCHANGED <<m_open, m_gate, gatesMade, pstate, reactions,
                               microtasks, waiters>>]_vars

\* C29 witness: of two handles the one with a condition has been disposed
\* in the last step, the other is held, and the latch is closed.
C29_Witness ==
  \E d, e \in Handles :
    /\ handles[d].st = "disposed" /\ handles[d].hasCond
    /\ handles[e].st = "held"
    /\ lastOp = "disposeMore"
    /\ m_inUse = 1
    /\ m_open # Null

\* C31: m_inUse is never negative, whatever use() calls and disposals were
\* made, disposals of a handle already disposed included.
C31_HoldCountNonNegative == m_inUse >= 0

\* ------------------------------------------------------------ PromiseBarrier
\* The barrier's state as one value, so that the callback of line 122 can
\* read this.free; result is what the getter returns.
Barrier ==
  [h |-> Heap, active |-> m_activePromises, cached |-> m_cachedFree,
   remaining |-> settledRemaining, made |-> freesMade, result |-> NoP]

SetBarrier(B) ==
  /\ SetHeap(B.h)
  /\ m_cachedFree' = B.cached
  /\ settledRemaining' = B.remaining
  /\ freesMade' = B.made

\* Promise.allSettled(this.m_activePromises), line 121: a reaction on every
\* member of the set, in the set's order, which is the order of insertion
RECURSIVE AllSettledElements(_, _, _, _)
AllSettledElements(h, active, n, t) ==
  IF t > NumTasks THEN h
  ELSE AllSettledElements(
         IF t \in active THEN Then(h, TaskP(t), Job("element", n, TaskP(t)))
         ELSE h,
         active, n, t + 1)

GetFree_Recomputes(B) ==
  IF B.active = {} THEN [B EXCEPT !.result = ResolvedP]
  ELSE LET n == B.made + 1
           h1 == AllSettledElements(B.h, B.active, n, 1)
           h2 == Then(h1, AllSettledP(n), Job("freeThen", n, FreeP(n))) IN
         [B EXCEPT !.h = h2, !.cached = n,
                   !.remaining[n] = Cardinality(B.active),
                   !.made = n, !.result = FreeP(n)]

GetFree_EmptyWaits(B) ==
  IF B.cached # Null THEN [B EXCEPT !.result = FreeP(B.cached)]
  ELSE LET n == B.made + 1
           h1 == AllSettledElements(B.h, B.active, n, 1)
           h2 == Then(h1, AllSettledP(n), Job("freeThen", n, FreeP(n))) IN
         [B EXCEPT !.h = h2, !.cached = n,
                   !.remaining[n] = Cardinality(B.active),
                   !.made = n, !.result = FreeP(n)]

\* the getter free (lines 118-124)
GetFree(B) ==
  IF B.cached # Null THEN [B EXCEPT !.result = FreeP(B.cached)]
  ELSE IF B.active = {} THEN [B EXCEPT !.result = ResolvedP]
  ELSE LET n == B.made + 1
           h1 == AllSettledElements(B.h, B.active, n, 1)
           h2 == Then(h1, AllSettledP(n), Job("freeThen", n, FreeP(n))) IN
         [B EXCEPT !.h = h2, !.cached = n,
                   !.remaining[n] = Cardinality(B.active),
                   !.made = n, !.result = FreeP(n)]

\* the added tasks that have not settled
Unsettled ==
  {t \in Tasks : tasks[t] = "added" /\ pstate[TaskP(t)] = "pending"}

\* PromiseBarrier.add(promise) (lines 100-107); the promise may have settled
\* before it is added.  The promise finally() returns is not used and is
\* left out.
CallAdd ==
  \E t \in Tasks, initial \in {"pending", "fulfilled", "rejected"} :
    /\ envTurn
    /\ tasks[t] = "unused"
    /\ \A u \in Tasks : u < t => tasks[u] # "unused"
    /\ m_activePromises' = m_activePromises \cup {t}
    /\ LET h0 == IF initial = "pending" THEN Heap
                 ELSE Settle(Heap, TaskP(t), initial)
           h1 == Then(h0, TaskP(t), Job("catch", t, CaughtP(t)))
           h2 == Then(h1, CaughtP(t), Job("finally", t, NoP)) IN
         SetHeap(h2)
    /\ tasks' = [tasks EXCEPT ![t] = "added"]
    /\ lastRead' = NoP
    /\ envTurn' = TRUE
    /\ UNCHANGED <<m_cachedFree, settledRemaining, freesMade, obtainedPending>>
    /\ OnlyBarrier

\* a tracked task completes or fails
SettleTask ==
  \E t \in Unsettled, outcome \in {"fulfilled", "rejected"} :
    /\ envTurn
    /\ SetHeap(Settle(Heap, TaskP(t), outcome))
    /\ lastRead' = NoP
    /\ envTurn' = TRUE
    /\ UNCHANGED <<m_activePromises, m_cachedFree, settledRemaining, freesMade,
                   tasks, obtainedPending>>
    /\ OnlyBarrier

\* lines 103-105: the promise catch() returns is fulfilled, with the task's
\* value or with what the handler returns
CatchOutcome(taskOutcome) == "fulfilled"

RunCatch ==
  /\ NextJobIs("catch")
  /\ LET t == Head(microtasks).who
         h == Settle(Pop(Heap), CaughtP(t), CatchOutcome(pstate[TaskP(t)])) IN
       /\ SetHeap(h)
       /\ envTurn' = EnvAfter(h, FALSE)
  /\ lastRead' = NoP
  /\ UNCHANGED <<m_activePromises, m_cachedFree, settledRemaining, freesMade,
                 tasks, obtainedPending>>
  /\ OnlyBarrier

\* line 106, the finally callback
RunFinally ==
  /\ NextJobIs("finally")
  /\ m_activePromises' = m_activePromises \ {Head(microtasks).who}
  /\ SetHeap(Pop(Heap))
  /\ envTurn' = EnvAfter(Pop(Heap), FALSE)
  /\ lastRead' = NoP
  /\ UNCHANGED <<m_cachedFree, settledRemaining, freesMade, tasks,
                 obtainedPending>>
  /\ OnlyBarrier

\* Promise.allSettled (line 121) records an element that rejected as a
\* result, like one that fulfilled; Promise.all would pass the rejection on
ElementOutcome_All(taskOutcome) == taskOutcome

ElementOutcome(taskOutcome) == "fulfilled"

\* Promise.allSettled: one element has settled; the last one fulfils the
\* aggregate
RunElement ==
  /\ NextJobIs("element")
  /\ LET n == Head(microtasks).who
         outcome == ElementOutcome(pstate[Head(microtasks).src])
         h == IF outcome = "rejected"
              THEN Settle(Pop(Heap), AllSettledP(n), "rejected")
              ELSE IF settledRemaining[n] = 1
              THEN Resolve(Pop(Heap), AllSettledP(n))
              ELSE Pop(Heap) IN
       /\ settledRemaining' = [settledRemaining EXCEPT ![n] = @ - 1]
       /\ SetHeap(h)
       /\ envTurn' = EnvAfter(h, FALSE)
  /\ lastRead' = NoP
  /\ UNCHANGED <<m_activePromises, m_cachedFree, freesMade, tasks,
                 obtainedPending>>
  /\ OnlyBarrier

ClearCache_Kept(B) == B

\* line 122: this.m_cachedFree = null
ClearCache(B) == [B EXCEPT !.cached = Null]

\* line 122, the then callback: it clears the cache and returns this.free,
\* a promise, so the free future is resolved with a promise.  then() is
\* given no rejection handler: a rejected aggregate would reject the free
\* future without running the callback.
RunFreeThen ==
  /\ NextJobIs("freeThen")
  /\ LET n == Head(microtasks).who IN
       IF pstate[AllSettledP(n)] = "rejected"
       THEN LET h == Settle(Pop(Heap), FreeP(n), "rejected") IN
              /\ SetHeap(h)
              /\ envTurn' = EnvAfter(h, FALSE)
              /\ UNCHANGED <<m_cachedFree, settledRemaining, freesMade>>
       ELSE LET B == GetFree(ClearCache([Barrier EXCEPT !.h = Pop(Heap)]))
                h == Enqueue(B.h, Job("freeThenable", n, B.result)) IN
              /\ SetBarrier([B EXCEPT !.h = h])
              /\ envTurn' = EnvAfter(h, FALSE)
  /\ lastRead' = NoP
  /\ UNCHANGED <<m_activePromises, tasks, obtainedPending>>
  /\ OnlyBarrier

\* a promise resolved with another promise: the job that calls the inner
\* promise's then with the free future's resolving functions
RunFreeThenable ==
  /\ NextJobIs("freeThenable")
  /\ LET n == Head(microtasks).who
         inner == Head(microtasks).src
         h == Then(Pop(Heap), inner, Job("freeAdopt", n, inner)) IN
       /\ SetHeap(h)
       /\ envTurn' = EnvAfter(h, FALSE)
  /\ lastRead' = NoP
  /\ UNCHANGED <<m_activePromises, m_cachedFree, settledRemaining, freesMade,
                 tasks, obtainedPending>>
  /\ OnlyBarrier

\* the inner promise has settled: the free future takes its state
RunFreeAdopt ==
  /\ NextJobIs("freeAdopt")
  /\ LET n == Head(microtasks).who
         inner == Head(microtasks).src
         h == Settle(Pop(Heap), FreeP(n), pstate[inner]) IN
       /\ SetHeap(h)
       /\ envTurn' = EnvAfter(h, FALSE)
  /\ lastRead' = NoP
  /\ UNCHANGED <<m_activePromises, m_cachedFree, settledRemaining, freesMade,
                 tasks, obtainedPending>>
  /\ OnlyBarrier

\* a caller reads barrier.free
CallFree ==
  /\ envTurn
  /\ LET B == GetFree(Barrier) IN
       /\ SetBarrier(B)
       /\ lastRead' = B.result
       /\ obtainedPending' =
            IF B.result # ResolvedP /\ Unsettled # {}
            THEN obtainedPending \cup {B.result[2]}
            ELSE obtainedPending
  /\ envTurn' = TRUE
  /\ UNCHANGED <<m_activePromises, tasks>>
  /\ OnlyBarrier

BarrierEnvDefer ==
  EnvDefer /\ lastRead' = NoP /\ OnlyBarrier
    /\ UNCHANGED <<m_activePromises, m_cachedFree, settledRemaining, freesMade,
                   tasks, obtainedPending>>

BarrierRunEnv ==
  RunEnv /\ lastRead' = NoP /\ OnlyBarrier
    /\ UNCHANGED <<m_activePromises, m_cachedFree, settledRemaining, freesMade,
                   tasks, obtainedPending>>

BarrierNext ==
  \/ CallAdd
  \/ SettleTask
  \/ RunCatch
  \/ RunFinally
  \/ RunElement
  \/ RunFreeThen
  \/ RunFreeThenable
  \/ RunFreeAdopt
  \/ CallFree
  \/ BarrierEnvDefer
  \/ BarrierRunEnv

SpecBarrier == Init /\ [][BarrierNext]_vars

\* the event loop runs the microtask at the head of the queue
BarrierJobs ==
  \/ RunCatch
  \/ RunFinally
  \/ RunElement
  \/ RunFreeThen
  \/ RunFreeThenable
  \/ RunFreeAdopt
  \/ BarrierRunEnv

\* The event loop never leaves a queued microtask unrun, and every task that
\* was added settles.
SpecBarrierLive == SpecBarrier /\ WF_vars(BarrierJobs) /\ WF_vars(SettleTask)

\* ------------------------------------------------------------ PromiseBarrier claims
FreeResolves(n) ==
  pstate[FreeP(n)] = "pending" /\ pstate'[FreeP(n)] = "fulfilled"

\* C10: a free future that a caller obtained while tasks were pending does
\* not resolve while a task added before that moment is unsettled.
C10_DynamicAddition ==
  [][\A n \in Frees :
       (n \in obtainedPending /\ FreeResolves(n)) => Unsettled = {}]_vars

\* the wait of a free future was extended by a task added during it, and
\* the future resolved after that task settled
C10_Extended ==
  /\ 1 \in obtainedPending
  /\ freesMade >= 2
  /\ pstate[FreeP(1)] = "fulfilled"
  /\ Unsettled = {}

\* C11: a task is in the tracked set from add() until the callbacks add()
\* registered have run after it settled, whether it fulfilled or rejected,
\* and no free future is ever rejected.
C11_ErrorTolerance ==
  /\ \A t \in Tasks :
       /\ t \in m_activePromises => tasks[t] = "added"
       /\ (tasks[t] = "added" /\ t \notin m_activePromises) =>
            pstate[TaskP(t)] # "pending"
       /\ (t \in m_activePromises /\ pstate[TaskP(t)] # "pending") =>
            \E i \in 1..Len(microtasks) :
              microtasks[i].kind \in {"catch", "finally"}
                /\ microtasks[i].who = t
  /\ \A n \in Frees : pstate[FreeP(n)] # "rejected"

\* C11 witness: a task rejected and is out of the set, and the free future
\* that waited for it is fulfilled.
C11_Witness ==
  \E t \in Tasks :
    /\ pstate[TaskP(t)] = "rejected"
    /\ t \notin m_activePromises
    /\ 1 \in obtainedPending
    /\ pstate[FreeP(1)] = "fulfilled"

\* C23: when every added task settles, every free future that line 121
\* created resolves, and from some time on the tracked set is empty and the
\* cached free future is null.
C23_Convergence ==
  /\ \A n \in Frees : (freesMade >= n) ~> (pstate[FreeP(n)] = "fulfilled")
  /\ <>[](m_activePromises = {} /\ m_cachedFree = Null)

\* C23 witness: two tasks were added, one failed, a free future obtained
\* while a task was unsettled has resolved, and the barrier is empty again.
C23_Witness ==
  /\ \A t \in Tasks : tasks[t] = "added"
  /\ \E t \in Tasks : pstate[TaskP(t)] = "rejected"
  /\ 1 \in obtainedPending
  /\ pstate[FreeP(1)] = "fulfilled"
  /\ m_activePromises = {}
  /\ m_cachedFree = Null
  /\ microtasks = <<>>

\* the tracked, unsettled tasks that the cached free future does not wait
\* for: they were added after line 121 computed it
AddedSinceCached ==
  {t \in m_activePromises :
     /\ m_cachedFree # Null
     /\ pstate[TaskP(t)] = "pending"
     /\ ~\E i \in 1..Len(reactions[TaskP(t)]) :
          /\ reactions[TaskP(t)][i].kind = "element"
          /\ reactions[TaskP(t)][i].who = m_cachedFree}

\* a caller's read of free
ReadStep == lastRead' # NoP

\* C24: a read of free that follows an add() made while a cached free
\* future existed returns a newly computed future, not the cached one.
C24_AddInvalidates ==
  [][(ReadStep /\ AddedSinceCached # {}) =>
       /\ freesMade' = freesMade + 1
       /\ lastRead' = FreeP(freesMade')
       /\ lastRead' # FreeP(m_cachedFree)]_vars

QuietBarrier == microtasks = <<>> /\ Unsettled = {}

\* C26: a read of free with no cached future and an empty tracked set
\* returns a settled future and changes nothing, the cache staying null;
\* and once the queued callbacks have run with no added task unsettled,
\* every free future is fulfilled without a further event.
C26_EmptyCase ==
  /\ [][(ReadStep /\ m_cachedFree = Null /\ m_activePromises = {}) =>
          /\ lastRead' = ResolvedP
          /\ pstate'[lastRead'] = "fulfilled"
          /\ m_cachedFree' = Null
          /\ UNCHANGED <<pstate, reactions, microtasks, settledRemaining,
                         m_activePromises, freesMade>>]_vars
  /\ [](QuietBarrier =>
          /\ \A n \in Frees : n <= freesMade => pstate[FreeP(n)] = "fulfilled"
          /\ m_activePromises = {}
          /\ m_cachedFree = Null)

\* C26 witness: every task was added, one of them rejected; a free future
\* computed while only settled tasks were tracked is fulfilled, all
\* callbacks have run, and a read of free has returned the settled future.
C26_Witness ==
  /\ \A t \in Tasks : tasks[t] = "added"
  /\ \E t \in Tasks : pstate[TaskP(t)] = "rejected"
  /\ QuietBarrier
  /\ freesMade >= 1
  /\ obtainedPending = {}
  /\ pstate[FreeP(1)] = "fulfilled"
  /\ m_activePromises = {}
  /\ m_cachedFree = Null
  /\ lastRead = ResolvedP

====
